---- MODULE Spec2Model ----
(***************************************************************************)
(* BaZi (Four Pillars) calculator of app.py: calculate_bazi and the four   *)
(* pillar calculators get_year_pillar, get_day_pillar, get_month_pillar    *)
(* and get_hour_pillar, with the lunar-new-year table they read.           *)
(*                                                                         *)
(* A datetime is a record [year, month, day, hour, minute]; a pillar is a  *)
(* pair <<stem_index, branch_index>>.  Python's // and % (floor division,  *)
(* result with the sign of the divisor) are \div and % of Integers.        *)
(***************************************************************************)
EXTENDS Integers, Sequences, FiniteSets, TLC

(***************************************************************************)
(* Bounds of the model                                                     *)
(***************************************************************************)
\* every anchor year a contributes the years a .. a + YearSpan
YearSpan == 1
\* a follow-up request asks about a date 1 .. MaxGap days after the last one
MaxGap == 2
\* direct calls of get_month_pillar pass year_stem in -StemSlack .. 9 + StemSlack
StemSlack == 2

(***************************************************************************)
(* Program constants                                                       *)
(***************************************************************************)
\* datetime.MINYEAR and datetime.MAXYEAR: the years a datetime can hold
MINYEAR == 1
MAXYEAR == 9999
\* "It contains entries from 1900 through 2100"
TableFirstYear == 1900
TableLastYear == 2100

None == <<>>

(***************************************************************************)
(* The cyclic tables.  Glyphs are written in English: element 木 wood,     *)
(* 火 fire, 土 earth, 金 metal, 水 water; yin_yang 阳 yang, 阴 yin.        *)
(* The source indexes from 0, a TLA+ sequence from 1.                      *)
(***************************************************************************)
HEAVENLY_STEMS ==
  << [name |-> "Jia",  element |-> "wood",  yin_yang |-> "yang"],
     [name |-> "Yi",   element |-> "wood",  yin_yang |-> "yin"],
     [name |-> "Bing", element |-> "fire",  yin_yang |-> "yang"],
     [name |-> "Ding", element |-> "fire",  yin_yang |-> "yin"],
     [name |-> "Wu",   element |-> "earth", yin_yang |-> "yang"],
     [name |-> "Ji",   element |-> "earth", yin_yang |-> "yin"],
     [name |-> "Geng", element |-> "metal", yin_yang |-> "yang"],
     [name |-> "Xin",  element |-> "metal", yin_yang |-> "yin"],
     [name |-> "Ren",  element |-> "water", yin_yang |-> "yang"],
     [name |-> "Gui",  element |-> "water", yin_yang |-> "yin"] >>

EARTHLY_BRANCHES ==
  << [name |-> "Zi",   element |-> "water", yin_yang |-> "yang"],
     [name |-> "Chou", element |-> "earth", yin_yang |-> "yin"],
     [name |-> "Yin",  element |-> "wood",  yin_yang |-> "yang"],
     [name |-> "Mao",  element |-> "wood",  yin_yang |-> "yin"],
     [name |-> "Chen", element |-> "earth", yin_yang |-> "yang"],
     [name |-> "Si",   element |-> "fire",  yin_yang |-> "yin"],
     [name |-> "Wu",   element |-> "fire",  yin_yang |-> "yang"],
     [name |-> "Wei",  element |-> "earth", yin_yang |-> "yin"],
     [name |-> "Shen", element |-> "metal", yin_yang |-> "yang"],
     [name |-> "You",  element |-> "metal", yin_yang |-> "yin"],
     [name |-> "Xu",   element |-> "earth", yin_yang |-> "yang"],
     [name |-> "Hai",  element |-> "water", yin_yang |-> "yin"] >>

\* HEAVENLY_STEMS[i] and EARTHLY_BRANCHES[i] of the source (0-based)
StemAt(i) == HEAVENLY_STEMS[i + 1]
BranchAt(i) == EARTHLY_BRANCHES[i + 1]

(***************************************************************************)
(* Python's datetime: the proleptic Gregorian calendar                     *)
(***************************************************************************)
_is_leap(year) == year % 4 = 0 /\ (year % 100 # 0 \/ year % 400 = 0)

_days_in_month(year, month) ==
  IF month = 2 THEN (IF _is_leap(year) THEN 29 ELSE 28)
  ELSE IF month \in {4, 6, 9, 11} THEN 30 ELSE 31

\* number of days before January 1st of year
_days_before_year(year) ==
  LET y == year - 1 IN y * 365 + (y \div 4) - (y \div 100) + (y \div 400)

_DAYS_BEFORE_MONTH == <<0, 31, 59, 90, 120, 151, 181, 212, 243, 273, 304, 334>>

\* number of days in year preceding the first day of month
_days_before_month(year, month) ==
  _DAYS_BEFORE_MONTH[month] + (IF month > 2 /\ _is_leap(year) THEN 1 ELSE 0)

\* date.toordinal(): 0001-01-01 is day 1
toordinal(d) ==
  _days_before_year(d.year) + _days_before_month(d.year, d.month) + d.day

\* datetime(year, month, day): midnight of that date
datetime(year, month, day) ==
  [year |-> year, month |-> month, day |-> day, hour |-> 0, minute |-> 0]

\* the constructor's range check: datetime(...) raises ValueError outside it
ValidDate(year, month, day) ==
  /\ year \in MINYEAR..MAXYEAR
  /\ month \in 1..12
  /\ day \in 1.._days_in_month(year, month)

\* a < b on two naive datetimes: field by field, most significant first
DtLess(a, b) ==
  \/ a.year < b.year
  \/ a.year = b.year /\ a.month < b.month
  \/ a.year = b.year /\ a.month = b.month /\ a.day < b.day
  \/ a.year = b.year /\ a.month = b.month /\ a.day = b.day /\ a.hour < b.hour
  \/ /\ a.year = b.year /\ a.month = b.month /\ a.day = b.day
     /\ a.hour = b.hour /\ a.minute < b.minute

DtLessEq(a, b) == ~DtLess(b, a)

(***************************************************************************)
(* data/lunar_new_year.json: a dict from year to the "yyyy-mm-dd" string    *)
(* of that year's lunar new year.  A string is the tuple of its eight      *)
(* digits; a dict is a function whose domain is its keys (str(year) is     *)
(* written as the year).                                                   *)
(***************************************************************************)
isoformat(year, month, day) ==
  << year \div 1000, (year \div 100) % 10, (year \div 10) % 10, year % 10,
     month \div 10, month % 10, day \div 10, day % 10 >>

\* datetime.strptime(s, "%Y-%m-%d")
strptime(s) ==
  datetime(s[1] * 1000 + s[2] * 100 + s[3] * 10 + s[4],
           s[5] * 10 + s[6],
           s[7] * 10 + s[8])

\* d.get(key): the value, or None for a missing key
DictGet(d, key) == IF key \in DOMAIN d THEN d[key] ELSE None

\* d.get(key, default)
DictGetDefault(d, key, default) == IF key \in DOMAIN d THEN d[key] ELSE default

\* "if lny_str:": None and the empty string are false
Truthy(s) == s # None /\ Len(s) > 0

(***************************************************************************)
(* get_year_pillar, given the table it loaded                              *)
(***************************************************************************)
\* the BaZi year: dt.year, or the year before
bazi_year(dt, lunar_new_year) ==
  LET lny_str == DictGet(lunar_new_year, dt.year)
  IN  IF Truthy(lny_str)
      THEN IF DtLess(dt, strptime(lny_str)) THEN dt.year - 1 ELSE dt.year
      ELSE IF dt.month < 2 \/ (dt.month = 2 /\ dt.day < 4)
           THEN dt.year - 1 ELSE dt.year

\* a faulty variant: the boundary instant itself still counts as the old year
get_year_pillar_inclusive(dt, lunar_new_year) ==
  LET lny_str == DictGet(lunar_new_year, dt.year)
      year == IF Truthy(lny_str)
              THEN IF DtLessEq(dt, strptime(lny_str)) THEN dt.year - 1 ELSE dt.year
              ELSE IF dt.month < 2 \/ (dt.month = 2 /\ dt.day <= 4)
                   THEN dt.year - 1 ELSE dt.year
      offset == year - 1984
  IN  << (offset % 10) % 10, (offset % 12) % 12 >>

\* a faulty variant: a remainder that keeps the sign of the dividend
get_year_pillar_truncated(dt, lunar_new_year) ==
  LET offset == bazi_year(dt, lunar_new_year) - 1984
      rem(a, b) == IF a >= 0 THEN a % b ELSE 0 - ((0 - a) % b)
  IN  << rem(offset, 10), rem(offset, 12) >>

get_year_pillar(dt, lunar_new_year) ==
  LET year == bazi_year(dt, lunar_new_year)
      offset == year - 1984
      stem_index == (offset % 10) % 10
      branch_index == (offset % 12) % 12
  IN  << stem_index, branch_index >>

(***************************************************************************)
(* get_day_pillar                                                          *)
(***************************************************************************)
ref_date == [year |-> 1900, month |-> 1, day |-> 1]

\* a faulty variant: every year counted as 365 days
get_day_pillar_noleap(dt) ==
  LET delta_days == (dt.year - ref_date.year) * 365
                    + _DAYS_BEFORE_MONTH[dt.month] + dt.day - 1
  IN  << (6 + delta_days) % 10, (0 + delta_days) % 12 >>

get_day_pillar(dt) ==
  LET delta_days == toordinal(dt) - toordinal(ref_date)
      stem_index == (6 + delta_days) % 10
      branch_index == (0 + delta_days) % 12
  IN  << stem_index, branch_index >>

(***************************************************************************)
(* get_month_pillar                                                        *)
(***************************************************************************)
boundaries ==
  << <<2, 4>>, <<3, 6>>, <<4, 5>>, <<5, 5>>, <<6, 6>>, <<7, 7>>,
     <<8, 8>>, <<9, 8>>, <<10, 8>>, <<11, 7>>, <<12, 7>>, <<1, 6>> >>

\* the year the boundary of 0-based index i is built in
boundary_year(dt, i) == IF i < 11 THEN dt.year ELSE dt.year + 1

\* building boundary_dates raises ValueError when a year is out of range
boundary_dates_raises(dt) ==
  \E i \in 0..11 :
    ~ValidDate(boundary_year(dt, i), boundaries[i + 1][1], boundaries[i + 1][2])

\* boundary_dates[i] (0-based)
boundary_dates(dt, i) ==
  datetime(boundary_year(dt, i), boundaries[i + 1][1], boundaries[i + 1][2])

\* the for ... else loop over range(len(boundary_dates) - 1), from index i on
RECURSIVE branch_loop(_, _)
branch_loop(dt, i) ==
  IF i >= Len(boundaries) - 1
  THEN 1
  ELSE IF DtLessEq(boundary_dates(dt, i), dt) /\ DtLess(dt, boundary_dates(dt, i + 1))
       THEN (2 + i) % 12
       ELSE branch_loop(dt, i + 1)

\* a faulty variant: intervals open on the left and closed on the right
month_branch_index_shifted(dt) ==
  IF DtLessEq(dt, boundary_dates(dt, 0))
  THEN 1
  ELSE LET hit == { i \in 0..10 : DtLess(boundary_dates(dt, i), dt)
                                  /\ DtLessEq(dt, boundary_dates(dt, i + 1)) }
       IN  IF hit = {} THEN 1 ELSE (2 + (CHOOSE i \in hit : TRUE)) % 12

month_branch_index(dt) ==
  IF DtLess(dt, boundary_dates(dt, 0)) THEN 1 ELSE branch_loop(dt, 0)

five_tigers_start ==
  (0 :> 2) @@ (5 :> 2) @@ (1 :> 4) @@ (6 :> 4) @@ (2 :> 6) @@ (7 :> 6)
  @@ (3 :> 8) @@ (8 :> 8) @@ (4 :> 0) @@ (9 :> 0)

\* a faulty variant: the start stem of 癸 (9) taken one pair too early
month_stem_index_slip(year_stem, branch) ==
  LET start_stem == IF year_stem = 9 THEN 8
                    ELSE DictGetDefault(five_tigers_start, year_stem, 2)
  IN  (start_stem + ((branch - 2) % 12)) % 10

month_stem_index(year_stem, branch) ==
  LET start_stem == DictGetDefault(five_tigers_start, year_stem, 2)
      relative_idx == (branch - 2) % 12
  IN  (start_stem + relative_idx) % 10

\* the value returned when boundary_dates could be built
get_month_pillar(year_stem, year_branch, dt) ==
  << month_stem_index(year_stem, month_branch_index(dt)), month_branch_index(dt) >>

(***************************************************************************)
(* get_hour_pillar                                                         *)
(***************************************************************************)
\* a faulty variant: the docstring's floor(hour / 2)
get_hour_pillar_floor(day_stem, dt) ==
  LET branch_index == (dt.hour \div 2) % 12
  IN  << (day_stem * 2 + branch_index) % 10, branch_index >>

get_hour_pillar(day_stem, dt) ==
  LET hour == dt.hour
      branch_index == ((hour + 1) \div 2) % 12
      stem_index == (day_stem * 2 + branch_index) % 10
  IN  << stem_index, branch_index >>

(***************************************************************************)
(* calculate_bazi: the composed result and its tallies                     *)
(***************************************************************************)
Elements == {"wood", "fire", "earth", "metal", "water"}

\* the loop "for p in pillars" from pillar i on; acc is
\* [elements_count, yin, yang]
RECURSIVE count_loop(_, _, _)
count_loop(pillars, i, acc) ==
  IF i > Len(pillars)
  THEN acc
  ELSE LET stem == StemAt(pillars[i][1])
           branch == BranchAt(pillars[i][2])
           ec1 == [acc.elements_count EXCEPT ![stem.element] = @ + 1]
           ec2 == [ec1 EXCEPT ![branch.element] = @ + 1]
           yin == acc.yin + (IF stem.yin_yang = "yin" THEN 1 ELSE 0)
                          + (IF branch.yin_yang = "yin" THEN 1 ELSE 0)
           yang == acc.yang + (IF stem.yin_yang = "yang" THEN 1 ELSE 0)
                            + (IF branch.yin_yang = "yang" THEN 1 ELSE 0)
       IN  count_loop(pillars, i + 1,
                      [elements_count |-> ec2, yin |-> yin, yang |-> yang])

\* a faulty variant: the branch of each pillar is left out of the element tally
count_elements_stems_only(pillars) ==
  LET full == count_loop(pillars, 1,
                [elements_count |-> [e \in Elements |-> 0], yin |-> 0, yang |-> 0])
  IN  [full EXCEPT !.elements_count =
         [e \in Elements |->
            Cardinality({ i \in 1..Len(pillars) : StemAt(pillars[i][1]).element = e })]]

count_elements(pillars) ==
  count_loop(pillars, 1,
             [elements_count |-> [e \in Elements |-> 0], yin |-> 0, yang |-> 0])

(***************************************************************************)
(* The inputs: the date-times asked about and the content of the data file *)
(***************************************************************************)
AnchorYears == {MINYEAR, 1899, 1983, 1999, MAXYEAR - 1}

Years == (UNION { a..(a + YearSpan) : a \in AnchorYears }) \cap (MINYEAR..MAXYEAR)

\* the years of the runs with a follow-up request, and of the direct calls
PairYears == {1983, 1984}
MonthYears == {1984, MAXYEAR}

\* every hour on ten consecutive days of June, else the first and the last
\* minute of the day
TimesOf(month, day) ==
  {<<0, 0>>, <<23, 59>>}
  \cup (IF month = 6 /\ day <= 10 THEN { <<h, 0>> : h \in 0..23 } ELSE {})

Inputs(Y) ==
  UNION { UNION { { [year |-> y, month |-> m, day |-> d, hour |-> t[1], minute |-> t[2]]
                    : t \in TimesOf(m, d) }
                  : d \in 1.._days_in_month(y, m) }
          : <<y, m>> \in Y \X (1..12) }

EmptyDict == <<>>

\* candidate lunar new year days <<month, day>>
LnyDays == { <<1, 21>>, <<2, 5>>, <<2, 20>> }

\* a file with one entry for every year it covers
FullTable(md) ==
  [ y \in Years \cap (TableFirstYear..TableLastYear) |-> isoformat(y, md[1], md[2]) ]

Tables == {EmptyDict} \cup { FullTable(md) : md \in LnyDays }

\* the calendar day after d, and the k-th day after d
NextDay(d) ==
  IF d.day < _days_in_month(d.year, d.month) THEN [d EXCEPT !.day = @ + 1]
  ELSE IF d.month < 12 THEN [d EXCEPT !.month = @ + 1, !.day = 1]
  ELSE [d EXCEPT !.year = @ + 1, !.month = 1, !.day = 1]

RECURSIVE AddDays(_, _)
AddDays(d, k) == IF k = 0 THEN d ELSE AddDays(NextDay(d), k - 1)

(***************************************************************************)
(* State                                                                   *)
(***************************************************************************)
VARIABLES
  file_exists,   \* whether data/lunar_new_year.json can be opened
  file_json,     \* what json.load gives for it
  dt,            \* the datetime asked about
  pc,            \* where the call stands
  y_pillar,      \* (y_stem, y_branch), None until computed
  d_pillar,      \* (d_stem, d_branch)
  m_pillar,      \* (m_stem, m_branch)
  h_pillar,      \* (h_stem, h_branch)
  result,        \* what calculate_bazi returned, None before
  prev           \* the request answered before this one: its dt and pillars

vars == << file_exists, file_json, dt, pc, y_pillar, d_pillar, m_pillar,
           h_pillar, result, prev >>

\* get_year_pillar's try/except around open and json.load
load_lunar_new_year == IF file_exists THEN file_json ELSE EmptyDict

InitOn(Y) ==
  /\ \/ file_exists = FALSE /\ file_json = EmptyDict
     \/ file_exists = TRUE /\ file_json \in Tables
  /\ dt \in Inputs(Y)
  /\ pc = "year"
  /\ y_pillar = None
  /\ d_pillar = None
  /\ m_pillar = None
  /\ h_pillar = None
  /\ result = None
  /\ prev = None

Init == InitOn(Years)

(***************************************************************************)
(* calculate_bazi(dt), one call after the other                            *)
(***************************************************************************)
YearPillar ==
  /\ pc = "year"
  /\ y_pillar' = get_year_pillar(dt, load_lunar_new_year)
  /\ pc' = "day"
  /\ UNCHANGED << file_exists, file_json, dt, d_pillar, m_pillar, h_pillar,
                  result, prev >>

DayPillar ==
  /\ pc = "day"
  /\ d_pillar' = get_day_pillar(dt)
  /\ pc' = "month"
  /\ UNCHANGED << file_exists, file_json, dt, y_pillar, m_pillar, h_pillar,
                  result, prev >>

\* datetime(current_year + 1, 1, 6) raises ValueError in the last year
MonthPillar ==
  /\ pc = "month"
  /\ IF boundary_dates_raises(dt)
     THEN /\ pc' = "error"
          /\ m_pillar' = m_pillar
     ELSE /\ pc' = "hour"
          /\ m_pillar' = get_month_pillar(y_pillar[1], y_pillar[2], dt)
  /\ UNCHANGED << file_exists, file_json, dt, y_pillar, d_pillar, h_pillar,
                  result, prev >>

HourPillar ==
  /\ pc = "hour"
  /\ h_pillar' = get_hour_pillar(d_pillar[1], dt)
  /\ pc' = "count"
  /\ UNCHANGED << file_exists, file_json, dt, y_pillar, d_pillar, m_pillar,
                  result, prev >>

Compose ==
  /\ pc = "count"
  /\ LET pillars == << y_pillar, m_pillar, d_pillar, h_pillar >>
         counts == count_elements(pillars)
     IN  result' = [ pillars |-> pillars,
                     stems |-> [i \in 1..4 |-> StemAt(pillars[i][1]).name],
                     branches |-> [i \in 1..4 |-> BranchAt(pillars[i][2]).name],
                     elements_count |-> counts.elements_count,
                     yin |-> counts.yin,
                     yang |-> counts.yang ]
  /\ pc' = "done"
  /\ UNCHANGED << file_exists, file_json, dt, y_pillar, d_pillar, m_pillar,
                  h_pillar, prev >>

Next == YearPillar \/ DayPillar \/ MonthPillar \/ HourPillar \/ Compose

Spec == Init /\ [][Next]_vars

(***************************************************************************)
(* Two requests in a row: the second asks about a date a few days later,   *)
(* at the same time of day, and the first one's answer is kept in prev.    *)
(***************************************************************************)
NextRequest(k) ==
  /\ pc = "done"
  /\ prev = None
  /\ AddDays(dt, k).year <= MAXYEAR
  /\ prev' = << [dt |-> dt, y_pillar |-> y_pillar, m_pillar |-> m_pillar,
                 d_pillar |-> d_pillar, h_pillar |-> h_pillar] >>
  /\ dt' = AddDays(dt, k)
  /\ pc' = "year"
  /\ y_pillar' = None
  /\ d_pillar' = None
  /\ m_pillar' = None
  /\ h_pillar' = None
  /\ result' = None
  /\ UNCHANGED << file_exists, file_json >>

\* the first request falls in the first quarter, where the lunar new year is
InitTwo == InitOn(PairYears) /\ dt.month <= 3

NextTwo == Next \/ \E k \in 1..MaxGap : NextRequest(k)

SpecTwo == InitTwo /\ [][NextTwo]_vars

(***************************************************************************)
(* get_month_pillar called on its own, with any year_stem and year_branch  *)
(***************************************************************************)
InitMonth ==
  /\ file_exists = FALSE
  /\ file_json = EmptyDict
  /\ dt \in Inputs(MonthYears)
  /\ pc = "call"
  /\ y_pillar = None
  /\ d_pillar = None
  /\ m_pillar = None
  /\ h_pillar = None
  /\ result = None
  /\ prev = None

\* y_pillar holds the arguments year_stem and year_branch of the call
CallGetMonthPillar(year_stem, year_branch) ==
  /\ pc = "call"
  /\ y_pillar' = << year_stem, year_branch >>
  /\ IF boundary_dates_raises(dt)
     THEN /\ pc' = "error"
          /\ m_pillar' = m_pillar
     ELSE /\ pc' = "returned"
          /\ m_pillar' = get_month_pillar(year_stem, year_branch, dt)
  /\ UNCHANGED << file_exists, file_json, dt, d_pillar, h_pillar, result, prev >>

NextMonth ==
  \E year_stem \in (0 - StemSlack)..(9 + StemSlack), year_branch \in 0..11 :
    CallGetMonthPillar(year_stem, year_branch)

SpecMonth == InitMonth /\ [][NextMonth]_vars

(***************************************************************************)
(* Yardsticks of the properties: the civil calendar counted in 400-year    *)
(* eras that start on March 1st, independent of toordinal and DtLess.      *)
(***************************************************************************)
\* days from 1970-01-01 to the civil date (year, month, day)
DaysFromCivil(year, month, day) ==
  LET y == IF month <= 2 THEN year - 1 ELSE year
      era == y \div 400
      yoe == y - era * 400
      mp == IF month > 2 THEN month - 3 ELSE month + 9
      doy == ((153 * mp + 2) \div 5) + day - 1
      doe == yoe * 365 + (yoe \div 4) - (yoe \div 100) + doy
  IN  era * 146097 + doe - 719468

\* instants are counted in minutes from January 1st, 00:00, of the year
\* before the one asked about (minutes from 1970 do not fit 32 bits)
EpochDay == DaysFromCivil(dt.year - 1, 1, 1)

\* the date-time t as an instant
Instant(t) ==
  (DaysFromCivil(t.year, t.month, t.day) - EpochDay) * 1440 + t.hour * 60 + t.minute

\* signed number of calendar days from 1900-01-01 to t's date
DaysSince1900(t) == DaysFromCivil(t.year, t.month, t.day) - DaysFromCivil(1900, 1, 1)

\* midnight of (year, month, day) as an instant
Midnight(year, month, day) == (DaysFromCivil(year, month, day) - EpochDay) * 1440

\* the instant of the i-th (0-based) of the twelve boundaries anchored to year
BoundaryInstant(year, i) ==
  Midnight(IF i < 11 THEN year ELSE year + 1, boundaries[i + 1][1], boundaries[i + 1][2])

\* the year boundary get_year_pillar is to use for t
YearBoundary(t) ==
  LET e == DictGet(load_lunar_new_year, t.year)
  IN  IF e # None
      THEN Midnight(strptime(e).year, strptime(e).month, strptime(e).day)
      ELSE Midnight(t.year, 2, 4)

\* the BaZi year of t
ResolvedYear(t) == IF Instant(t) < YearBoundary(t) THEN t.year - 1 ELSE t.year

YearDone == pc \in {"day", "month", "hour", "count", "done", "error"}
DayDone == pc \in {"month", "hour", "count", "done", "error"}
MonthDone == pc \in {"hour", "count", "done"}
HourDone == pc \in {"count", "done"}

InRange(p) == p[1] \in 0..9 /\ p[2] \in 0..11

(***************************************************************************)
(* C1: every pillar calculate_bazi computes, and every pillar of the       *)
(* result it returns, has stem_index in 0..9 and branch_index in 0..11,    *)
(* whatever the date-time and the content of the table.                    *)
(***************************************************************************)
C1_IndicesInRange ==
  /\ YearDone => InRange(y_pillar)
  /\ DayDone => InRange(d_pillar)
  /\ MonthDone => InRange(m_pillar)
  /\ HourDone => InRange(h_pillar)
  /\ pc = "done" => \A i \in 1..4 : InRange(result.pillars[i])

\* a result for a date before both reference points (1900-01-01, 1984),
\* with the data file present
C1_Witness ==
  /\ pc = "done"
  /\ dt.year < 1900
  /\ DaysSince1900(dt) < 0
  /\ file_exists

(***************************************************************************)
(* C2: the returned elements_count has exactly the five element keys, its  *)
(* values sum to 8 and yin + yang = 8: each of the eight stem and branch    *)
(* values is counted under its own element and its own polarity, once.     *)
(***************************************************************************)
C2_TalliesSumToEight ==
  pc = "done" =>
    LET ps == result.pillars
        ec == result.elements_count
        StemsWith(f, v) == Cardinality({ i \in 1..4 : StemAt(ps[i][1])[f] = v })
        BranchesWith(f, v) == Cardinality({ i \in 1..4 : BranchAt(ps[i][2])[f] = v })
    IN  /\ DOMAIN ec = Elements
        /\ ec["wood"] + ec["fire"] + ec["earth"] + ec["metal"] + ec["water"] = 8
        /\ result.yin + result.yang = 8
        /\ \A e \in Elements :
             ec[e] = StemsWith("element", e) + BranchesWith("element", e)
        /\ result.yin = StemsWith("yin_yang", "yin") + BranchesWith("yin_yang", "yin")
        /\ result.yang = StemsWith("yin_yang", "yang") + BranchesWith("yin_yang", "yang")

\* a result in which one element is counted four times and another not at all
C2_Witness ==
  /\ pc = "done"
  /\ \E e \in Elements : result.elements_count[e] >= 4
  /\ \E e \in Elements : result.elements_count[e] = 0

(***************************************************************************)
(* C3: the year pillar is ((Y - 1984) mod 10, (Y - 1984) mod 12), both     *)
(* non-negative, where Y is dt.year less one exactly when dt is strictly   *)
(* before the year's boundary: midnight of the table's date for dt.year if *)
(* the table has one, else midnight of February 4 of dt.year.  1984-06-01  *)
(* without a table entry gives (0, 0).                                     *)
(***************************************************************************)
C3_YearPillar ==
  YearDone =>
    /\ y_pillar = << (ResolvedYear(dt) - 1984) % 10, (ResolvedYear(dt) - 1984) % 12 >>
    /\ y_pillar[1] >= 0 /\ y_pillar[2] >= 0
    /\ ( /\ dt.year = 1984 /\ dt.month = 6 /\ dt.day = 1
         /\ DictGet(load_lunar_new_year, 1984) = None )
       => y_pillar = << 0, 0 >>

\* a date after February 4 that the table's later lunar new year still puts
\* in the year before, which lies before 1984
C3_Witness ==
  /\ YearDone
  /\ DictGet(load_lunar_new_year, dt.year) # None
  /\ Instant(dt) >= Midnight(dt.year, 2, 4)
  /\ Instant(dt) < YearBoundary(dt)
  /\ ResolvedYear(dt) < 1984

(***************************************************************************)
(* C4: the day pillar is ((6 + n) mod 10, n mod 12), non-negative also for *)
(* n < 0, where n is the signed number of calendar days from 1900-01-01 to *)
(* dt's date; 1900-01-01 gives (6, 0), and the following calendar day gets *)
(* the next stem and the next branch.                                      *)
(***************************************************************************)
C4_DayPillar ==
  DayDone =>
    /\ d_pillar = << (6 + DaysSince1900(dt)) % 10, DaysSince1900(dt) % 12 >>
    /\ d_pillar[1] >= 0 /\ d_pillar[2] >= 0
    /\ (dt.year = 1900 /\ dt.month = 1 /\ dt.day = 1) => d_pillar = << 6, 0 >>
    /\ NextDay(dt).year <= MAXYEAR =>
         get_day_pillar(NextDay(dt)) = << (d_pillar[1] + 1) % 10, (d_pillar[2] + 1) % 12 >>

\* a day pillar computed for a leap day
C4_Witness ==
  /\ DayDone
  /\ dt.month = 2 /\ dt.day = 29

C8_NeverAnError == pc # "error"

(***************************************************************************)
(* C9: every date-time from December 7 up to January 6 of the next year    *)
(* has month branch 0, and month branch 1 is returned exactly for the      *)
(* date-times from January 6 up to February 4.                             *)
(***************************************************************************)
C9_BoundaryStartsItsBranch ==
  MonthDone =>
    LET inZi == \/ Instant(dt) >= Midnight(dt.year, 12, 7)
                \/ Instant(dt) < Midnight(dt.year, 1, 6)
        inChou == /\ Instant(dt) >= Midnight(dt.year, 1, 6)
                  /\ Instant(dt) < Midnight(dt.year, 2, 4)
    IN  /\ inZi => m_pillar[2] = 0
        /\ m_pillar[2] = 1 <=> inChou

\* the start stem the Five Tigers rule gives year stem s
StartOf(s) ==
  CASE s \in {0, 5} -> 2
    [] s \in {1, 6} -> 4
    [] s \in {2, 7} -> 6
    [] s \in {3, 8} -> 8
    [] s \in {4, 9} -> 0
    [] OTHER -> 2

(***************************************************************************)
(* C6: Five Tigers.  For year stem s and month branch b the month stem is  *)
(* (start(s) + ((b - 2) mod 12)) mod 10 with start 2 for s in {0, 5}, 4    *)
(* for {1, 6}, 6 for {2, 7}, 8 for {3, 8}, 0 for {4, 9}; year stems s and  *)
(* s + 5 give the same month pillar for one date-time, and a year stem     *)
(* outside 0..9 has start 2.                                               *)
(***************************************************************************)
C6_FiveTigers ==
  pc = "returned" =>
    LET s == y_pillar[1]
        b == m_pillar[2]
    IN  /\ b \in 0..11
        /\ m_pillar[1] = (StartOf(s) + ((b - 2) % 12)) % 10
        /\ s \in 0..4 => get_month_pillar(s + 5, y_pillar[2], dt) = m_pillar
        /\ s \in 5..9 => get_month_pillar(s - 5, y_pillar[2], dt) = m_pillar
        /\ s \notin 0..9 => m_pillar[1] = (2 + ((b - 2) % 12)) % 10

\* a call with the last year stem, 9, in the month before February 4, where
\* b - 2 wraps around
C6_Witness ==
  /\ pc = "returned"
  /\ y_pillar[1] = 9
  /\ m_pillar[2] = 1

\* no boundary date b with a < b <= t, for a before t
NoBoundaryBetween(a, t) ==
  ~ \E y \in {a.year, t.year}, i \in 1..12 :
      /\ Instant(a) < Midnight(y, boundaries[i][1], boundaries[i][2])
      /\ Midnight(y, boundaries[i][1], boundaries[i][2]) <= Instant(t)

(***************************************************************************)
(* C10: two date-times with no month boundary date between them get the    *)
(* same month pillar from calculate_bazi, stem and branch, whatever the    *)
(* table holds.                                                            *)
(***************************************************************************)
C10_MonthPillarConstant ==
  (MonthDone /\ prev # None /\ NoBoundaryBetween(prev[1].dt, dt))
    => m_pillar = prev[1].m_pillar

====
